---- MODULE Spec2Model ----
(***************************************************************************)
(* A model of epub2txt.c (epub2txt v2): the archive-to-content resolution  *)
(* pipeline of epub2txt_do_file and the functions it is built from.        *)
(*                                                                         *)
(* C strings are TLA+ strings (TLC evaluates Len, SubSeq and \o on them).  *)
(* A NULL pointer to a string is the sentinel NULL.  Memory allocation     *)
(* (strdup, asprintf, the buffer of realpath) is taken to succeed: the     *)
(* branches of the source marked "Malloc error" are not part of the model. *)
(***************************************************************************)
EXTENDS Integers, Sequences, FiniteSets, TLC

VARIABLES
  pc,            \* position of the running call
  arg,           \* the argument of a function applied on its own
  result,        \* what that function returned
  tempdir,       \* static char *tempdir (epub2txt.c:49)
  live,          \* the temporary directories that exist on disk
  calls,         \* calls of epub2txt_do_file made so far
  archive,       \* the EPUB file given to the running call
  options,       \* the Epub2TxtOptions of the running call
  error,         \* *error of the running call
  created,       \* the directory mkdtemp created in the running call, or NULL
  rmrf,          \* the "rm -rf" commands the running call has issued
  out,           \* what the running call has written or rendered, in order
  warnings,      \* the log_warning messages of the running call, in order
  reads,         \* the reads of the OPF file the running call has made
  opf_canonical, \* local opf_canonical of epub2txt_do_file
  content_dir,   \* local content_dir of epub2txt_do_file
  spine_items,   \* local spine_items of epub2txt_do_file
  idx            \* loop index i of the spine loop of epub2txt_do_file

vars == <<pc, arg, result, tempdir, live, calls, archive, options, error,
          created, rmrf, out, warnings, reads, opf_canonical, content_dir,
          spine_items, idx>>

callvars == <<tempdir, live, calls, archive, options, error, created, rmrf,
              out, warnings, reads, opf_canonical, content_dir, spine_items,
              idx>>

NULL == "(null)"

(***************************************************************************)
(* Bounds of the model.                                                    *)
(***************************************************************************)
MaxStrLen == 4
MaxCalls == 2
MaxItems == 2

(***************************************************************************)
(* The C string functions the source uses.                                 *)
(***************************************************************************)
Ch(s, i) == SubSeq(s, i, i)

\* strstr (h, n) != NULL
Strstr(h, n) ==
  \E i \in 1..(Len(h) - Len(n) + 1) : SubSeq(h, i, i + Len(n) - 1) = n

\* strchr (s, c): the index of the first c in s, 0 when there is none
Strchr(s, c) ==
  IF \E i \in 1..Len(s) : Ch(s, i) = c
  THEN CHOOSE i \in 1..Len(s) :
         Ch(s, i) = c /\ \A j \in 1..(i - 1) : Ch(s, j) # c
  ELSE 0

\* strrchr (s, c): the index of the last c in s, 0 when there is none
Strrchr(s, c) ==
  IF \E i \in 1..Len(s) : Ch(s, i) = c
  THEN CHOOSE i \in 1..Len(s) :
         Ch(s, i) = c /\ \A j \in (i + 1)..Len(s) : Ch(s, j) # c
  ELSE 0

\* char *p = strchr (s, c); if (p) *p = 0;
TruncateAt(s, c) ==
  IF Strchr(s, c) = 0 THEN s ELSE SubSeq(s, 1, Strchr(s, c) - 1)

\* the printable ASCII characters, from code 32 to code 126 (the double quote,
\* the backslash and the backquote, which no input of the model holds, are
\* written as ?)
Ascii ==
  " !?#$%&'()*+,-./0123456789:;<=>?@ABCDEFGHIJKLMNOPQRSTUVWXYZ[?]^_?abcdefghijklmnopqrstuvwxyz{|}~"

CharOf(code) ==
  IF code >= 32 /\ code <= 126 THEN Ch(Ascii, code - 31) ELSE "?"

Digits == "0123456789"

IsDigit(c) == Len(c) = 1 /\ Strchr(Digits, c) # 0

RECURSIVE ParseDec(_)
ParseDec(s) ==
  IF s = "" THEN 0
  ELSE 10 * ParseDec(SubSeq(s, 1, Len(s) - 1))
         + (Strchr(Digits, Ch(s, Len(s))) - 1)

(***************************************************************************)
(* xhtml_translate_entity (xhtml.c): the text an entity name stands for;   *)
(* a name it does not know comes back as the literal "&name;".             *)
(***************************************************************************)
xhtml_translate_entity(ent) ==
  CASE ent = "amp" -> "&"
    [] ent = "lt" -> "<"
    [] ent = "gt" -> ">"
    [] ent = "apos" -> "'"
    [] Len(ent) >= 2 /\ Ch(ent, 1) = "#"
         /\ (\A i \in 2..Len(ent) : IsDigit(Ch(ent, i)))
         -> CharOf(ParseDec(SubSeq(ent, 2, Len(ent))))
    [] OTHER -> "&" \o ent \o ";"

(***************************************************************************)
(* epub2txt_unescape_html: the scanner with its two modes.                 *)
(***************************************************************************)
RECURSIVE UnescapeLoop(_, _, _, _, _)
UnescapeLoop(in, i, mode, ent, o) ==
  IF i > Len(in) THEN o
  ELSE LET c == Ch(in, i) IN
    IF mode = "MODE_AMP"
    THEN IF c = ";"
         THEN UnescapeLoop(in, i + 1, "MODE_ANY", "",
                           o \o xhtml_translate_entity(ent))
         ELSE UnescapeLoop(in, i + 1, "MODE_AMP", ent \o c, o)
    ELSE IF c = "&"
         THEN UnescapeLoop(in, i + 1, "MODE_AMP", ent, o)
         ELSE UnescapeLoop(in, i + 1, "MODE_ANY", ent, o \o c)

epub2txt_unescape_html(s) == UnescapeLoop(s, 1, "MODE_ANY", "", "")

(***************************************************************************)
(* decode_url (util.c): percent-decoding, %XX to the character of code XX. *)
(***************************************************************************)
HexDigits == "0123456789ABCDEF"

HexDigitsLower == "0123456789abcdef"

IsHex(c) ==
  Len(c) = 1 /\ (Strchr(HexDigits, c) # 0 \/ Strchr(HexDigitsLower, c) # 0)

HexVal(c) ==
  IF Strchr(HexDigits, c) # 0 THEN Strchr(HexDigits, c) - 1
  ELSE Strchr(HexDigitsLower, c) - 1

RECURSIVE decode_url(_)
decode_url(s) ==
  IF s = "" THEN ""
  ELSE IF Ch(s, 1) = "%" /\ Len(s) >= 3 /\ IsHex(Ch(s, 2)) /\ IsHex(Ch(s, 3))
       THEN CharOf(16 * HexVal(Ch(s, 2)) + HexVal(Ch(s, 3)))
              \o decode_url(SubSeq(s, 4, Len(s)))
       ELSE Ch(s, 1) \o decode_url(SubSeq(s, 2, Len(s)))

(***************************************************************************)
(* The XML documents the functions read.  A document is unreadable         *)
(* (string_create_from_utf8_file fails), not XML (XMLDoc_parse_buffer_DOM  *)
(* fails), XML without a root element, or XML whose root has the children  *)
(* given.  An XMLNode has a tag, a text (NULL when the element has none),  *)
(* attributes and children; an empty sequence is the NULL array of sxmlc.  *)
(***************************************************************************)
Attr(n, v) == [name |-> n, value |-> v]

Node(tag, text, attributes, children) ==
  [tag |-> tag, text |-> text, attributes |-> attributes,
   children |-> children]

XmlDoc(children) == [kind |-> "xml", children |-> children]

Unreadable == [kind |-> "unreadable", children |-> <<>>]

BadXml == [kind |-> "badxml", children |-> <<>>]

NoRoot == [kind |-> "noroot", children |-> <<>>]

SeqsUpTo(S, n) == UNION {[1..k -> S] : k \in 0..n}

\* strcmp (tag, name) == 0 || strstr (tag, ":name")
TagMatches(tag, name) == tag = name \/ Strstr(tag, ":" \o name)

\* the index of the first child whose tag matches name, 0 when none does
FirstChild(children, name) ==
  IF \E i \in 1..Len(children) : TagMatches(children[i].tag, name)
  THEN CHOOSE i \in 1..Len(children) :
         /\ TagMatches(children[i].tag, name)
         /\ \A j \in 1..(i - 1) : ~TagMatches(children[j].tag, name)
  ELSE 0

(***************************************************************************)
(* epub2txt_get_items: the loops over the spine, the itemref attributes,   *)
(* the manifest items and their attributes (epub2txt.c:280-340).           *)
(***************************************************************************)
\* for (p ...) if (strcmp (name, "href") == 0) { list_append; break; }
RECURSIVE HrefLoop(_, _)
HrefLoop(attributes, p) ==
  IF p > Len(attributes) THEN <<>>
  ELSE IF attributes[p].name = "href"
       THEN <<decode_url(attributes[p].value)>>
       ELSE HrefLoop(attributes, p + 1)

\* for (n ...) if (name is "id" and value is idref_value) { ...; break; }
RECURSIVE ItemAttrLoop(_, _, _)
ItemAttrLoop(attributes, idref_value, n) ==
  IF n > Len(attributes) THEN <<>>
  ELSE IF attributes[n].name = "id" /\ attributes[n].value = idref_value
       THEN HrefLoop(attributes, 1)
       ELSE ItemAttrLoop(attributes, idref_value, n + 1)

\* for (m ...) over the children of the manifest: no break leaves this loop
RECURSIVE ManifestLoop(_, _, _)
ManifestLoop(items, idref_value, m) ==
  IF m > Len(items) THEN <<>>
  ELSE ItemAttrLoop(items[m].attributes, idref_value, 1)
         \o ManifestLoop(items, idref_value, m + 1)

\* for (k ...) if (strcmp (name, "idref") == 0) { ...; break; }
RECURSIVE ItemrefAttrLoop(_, _, _)
ItemrefAttrLoop(attributes, items, k) ==
  IF k > Len(attributes) THEN <<>>
  ELSE IF attributes[k].name = "idref"
       THEN ManifestLoop(items, attributes[k].value, 1)
       ELSE ItemrefAttrLoop(attributes, items, k + 1)

\* SpineLoop with the loops exchanged: the manifest drives the order
RECURSIVE SpineLoopManifestOrder(_, _, _)
SpineLoopManifestOrder(itemrefs, items, j) ==
  IF j > Len(items) THEN <<>>
  ELSE LET hit(r) == ItemrefAttrLoop(r.attributes, <<items[j]>>, 1)
           RECURSIVE Refs(_)
           Refs(k) == IF k > Len(itemrefs) THEN <<>>
                      ELSE hit(itemrefs[k]) \o Refs(k + 1)
       IN Refs(1) \o SpineLoopManifestOrder(itemrefs, items, j + 1)

\* for (j ...) over the children of the spine
RECURSIVE SpineLoop(_, _, _)
SpineLoop(itemrefs, items, j) ==
  IF j > Len(itemrefs) THEN <<>>
  ELSE ItemrefAttrLoop(itemrefs[j].attributes, items, 1)
         \o SpineLoop(itemrefs, items, j + 1)

\* The value: ok is FALSE for a NULL list; error is what *error is set to (it
\* is NULL on entry); warnings are the log_warning calls made.
epub2txt_get_items(doc) ==
  IF doc.kind = "unreadable"
  THEN [ok |-> FALSE, ret |-> <<>>, error |-> "Can't read file",
        warnings |-> <<>>]
  ELSE IF doc.kind = "badxml"
  THEN [ok |-> FALSE, ret |-> <<>>, error |-> NULL, warnings |-> <<>>]
  ELSE
    LET children == doc.children
        hasRoot == doc.kind = "xml" /\ children # <<>>
        w == IF hasRoot THEN <<>> ELSE <<"no root element or children">>
        mi == IF hasRoot THEN FirstChild(children, "manifest") ELSE 0
        si == IF hasRoot THEN FirstChild(children, "spine") ELSE 0
    IN IF mi = 0 \/ children[mi].children = <<>>
       THEN [ok |-> FALSE, ret |-> <<>>,
             error |-> "no valid manifest or manifest children",
             warnings |-> w]
       ELSE [ok |-> TRUE,
             ret |-> IF si = 0 THEN <<>>
                     ELSE SpineLoop(children[si].children,
                                    children[mi].children, 1),
             error |-> NULL, warnings |-> w]

(***************************************************************************)
(* epub2txt_get_root_file: the loops over the children of the root, the    *)
(* children of rootfiles and the attributes of rootfile (370-407).         *)
(***************************************************************************)
\* for (k ...) if (strcmp (attr_name, "full-path") == 0) { ret = ...; break; }
RECURSIVE FullPathLoop(_, _)
FullPathLoop(attributes, k) ==
  IF k > Len(attributes) THEN NULL
  ELSE IF attributes[k].name = "full-path" THEN attributes[k].value
       ELSE FullPathLoop(attributes, k + 1)

\* for (j ...) if (strcmp (tag, "rootfile") == 0) { ...; if (ret) break; }
RECURSIVE RootfileLoop(_, _)
RootfileLoop(children, j) ==
  IF j > Len(children) THEN NULL
  ELSE LET ret == IF children[j].tag = "rootfile"
                  THEN FullPathLoop(children[j].attributes, 1)
                  ELSE NULL
       IN IF ret # NULL THEN ret ELSE RootfileLoop(children, j + 1)

\* for (i ...) if (strcmp (r1->tag, "rootfiles") == 0) { ...; if (ret) break; }
RECURSIVE RootfilesLoop(_, _)
RootfilesLoop(children, i) ==
  IF i > Len(children) THEN NULL
  ELSE LET ret == IF children[i].tag = "rootfiles"
                  THEN RootfileLoop(children[i].children, 1)
                  ELSE NULL
       IN IF ret # NULL THEN ret ELSE RootfilesLoop(children, i + 1)

\* The value: ret is the String returned (NULL for none), error is what *error
\* is set to (it is NULL on entry), warnings are the log_warning calls made.
epub2txt_get_root_file(doc) ==
  IF doc.kind = "unreadable"
  THEN [ret |-> NULL, error |-> "Can't read file", warnings |-> <<>>]
  ELSE IF doc.kind = "badxml"
  THEN [ret |-> NULL, error |-> NULL, warnings |-> <<>>]
  ELSE
    LET hasRoot == doc.kind = "xml" /\ doc.children # <<>>
        ret == IF hasRoot THEN RootfilesLoop(doc.children, 1) ELSE NULL
    IN [ret |-> ret,
        error |-> IF ret = NULL
                  THEN "does not specify a root file via full-path attribute"
                  ELSE NULL,
        warnings |-> IF hasRoot THEN <<>>
                     ELSE <<"Root element or its children are NULL">>]

(***************************************************************************)
(* epub2txt_format_meta and epub2txt_dump_metadata.  A metadata line       *)
(* "key: text" handed to xhtml_utf8_to_stdout is the record of its key and *)
(* its unescaped text.                                                     *)
(***************************************************************************)
epub2txt_format_meta(key, text) ==
  IF text # NULL
  THEN <<[kind |-> "meta", key |-> key,
          text |-> epub2txt_unescape_html(text)]>>
  ELSE <<>>

\* for (k ...) over the attributes of a meta element: the last name or
\* property attribute and the last content attribute are kept
RECURSIVE MetaAttrLoop(_, _, _, _)
MetaAttrLoop(attributes, k, meta_name_attr, meta_content_attr) ==
  IF k > Len(attributes)
  THEN [name |-> meta_name_attr, content |-> meta_content_attr]
  ELSE IF attributes[k].name = "name" \/ attributes[k].name = "property"
       THEN MetaAttrLoop(attributes, k + 1, attributes[k].value,
                         meta_content_attr)
       ELSE IF attributes[k].name = "content"
            THEN MetaAttrLoop(attributes, k + 1, meta_name_attr,
                              attributes[k].value)
            ELSE MetaAttrLoop(attributes, k + 1, meta_name_attr,
                              meta_content_attr)

\* the body of the Calibre branch (epub2txt.c:180-207)
CalibreMeta(r2) ==
  LET a == MetaAttrLoop(r2.attributes, 1, NULL, NULL) IN
    IF a.name # NULL /\ a.content # NULL
    THEN IF a.name = "calibre:series"
         THEN epub2txt_format_meta("Calibre series", a.content)
         ELSE IF a.name = "calibre:series_index"
         THEN epub2txt_format_meta("Calibre series index",
                                   TruncateAt(a.content, "."))
         ELSE IF a.name = "calibre:title_sort"
         THEN epub2txt_format_meta("Calibre title sort", a.content)
         ELSE <<>>
    ELSE <<>>

\* one pass of the loop over the children of metadata (epub2txt.c:151-207)
MetadataChild(r2, opts) ==
  LET mdtag == r2.tag
      mdtext == r2.text
  IN IF mdtext = NULL THEN <<>>
     ELSE IF Strstr(mdtag, "creator")
     THEN epub2txt_format_meta("Creator", mdtext)
     ELSE IF Strstr(mdtag, "publisher")
     THEN epub2txt_format_meta("Publisher", mdtext)
     ELSE IF Strstr(mdtag, "contributor")
     THEN epub2txt_format_meta("Contributor", mdtext)
     ELSE IF Strstr(mdtag, "identifier")
     THEN epub2txt_format_meta("Identifier", mdtext)
     ELSE IF Strstr(mdtag, "date")
     THEN epub2txt_format_meta("Date", TruncateAt(mdtext, "-"))
     ELSE IF Strstr(mdtag, "description")
     THEN epub2txt_format_meta("Description", mdtext)
     ELSE IF Strstr(mdtag, "subject")
     THEN epub2txt_format_meta("Subject", mdtext)
     ELSE IF Strstr(mdtag, "language")
     THEN epub2txt_format_meta("Language", mdtext)
     ELSE IF Strstr(mdtag, "title")
     THEN epub2txt_format_meta("Title", mdtext)
     ELSE IF Strstr(mdtag, "meta") /\ opts.calibre
     THEN CalibreMeta(r2)
     ELSE <<>>

RECURSIVE MetadataLoop(_, _, _)
MetadataLoop(children, opts, j) ==
  IF j > Len(children) THEN <<>>
  ELSE MetadataChild(children[j], opts)
         \o MetadataLoop(children, opts, j + 1)

\* The value: out is what is written, error is what *error is set to (it is
\* NULL on entry), warnings are the log_warning calls made.
epub2txt_dump_metadata(doc, opts) ==
  IF doc.kind = "unreadable"
  THEN [out |-> <<>>, error |-> "Can't read file", warnings |-> <<>>]
  ELSE IF doc.kind = "badxml"
  THEN [out |-> <<>>, error |-> NULL, warnings |-> <<>>]
  ELSE IF doc.kind = "xml" /\ doc.children # <<>>
  THEN LET mi == FirstChild(doc.children, "metadata") IN
         [out |-> IF mi = 0 THEN <<>>
                  ELSE MetadataLoop(doc.children[mi].children, opts, 1),
          error |-> NULL, warnings |-> <<>>]
  ELSE [out |-> <<>>, error |-> NULL,
        warnings |-> <<"Root element or its children are NULL in OPF">>]

(***************************************************************************)
(* The file system a call of epub2txt_do_file sees once unzip has filled   *)
(* the temporary directory t: the directories and files outside it, and    *)
(* under t the tree every archive of the model unpacks to.  The archive    *)
(* ships three symbolic links that point out of the directory.             *)
(***************************************************************************)
Dirs(t) == {"/", "/tmp", "/etc", t, t \o "/META-INF", t \o "/OEBPS"}

Files(t, a) ==
  {"/etc/passwd", t \o "/OEBPS/content.opf", t \o "/OEBPS/c1.xhtml",
   t \o "/OEBPS/c2.xhtml", t \o "/root.xhtml"}
    \cup (IF a.container.kind = "unreadable" THEN {}
          ELSE {t \o "/META-INF/container.xml"})

Links(t) ==
  { <<t \o "/OEBPS/passwd.xhtml", "/etc/passwd">>,
    <<t \o "/OEBPS/etc", "/etc">>,
    <<t \o "/opf.lnk", "/etc/passwd">> }

IsLink(p, t) == \E l \in Links(t) : l[1] = p

LinkTarget(p, t) == (CHOOSE l \in Links(t) : l[1] = p)[2]

RECURSIVE SplitPath(_)
SplitPath(s) ==
  IF Strchr(s, "/") = 0 THEN <<s>>
  ELSE <<SubSeq(s, 1, Strchr(s, "/") - 1)>>
         \o SplitPath(SubSeq(s, Strchr(s, "/") + 1, Len(s)))

RECURSIVE JoinPath(_)
JoinPath(segs) ==
  IF segs = <<>> THEN ""
  ELSE "/" \o Head(segs) \o JoinPath(Tail(segs))

PathOf(segs) == IF segs = <<>> THEN "/" ELSE JoinPath(segs)

(***************************************************************************)
(* realpath (path, NULL) of libc on that file system: ".", ".." and the    *)
(* links are resolved one segment at a time, and every segment must exist. *)
(* The value is the canonical path, NULL when realpath fails.              *)
(***************************************************************************)
RECURSIVE ResolvePath(_, _, _, _)
ResolvePath(cur, rest, t, a) ==
  IF rest = <<>> THEN PathOf(cur)
  ELSE LET seg == Head(rest) IN
    IF PathOf(cur) \notin Dirs(t) THEN NULL
    ELSE IF seg = "" \/ seg = "." THEN ResolvePath(cur, Tail(rest), t, a)
    ELSE IF seg = ".."
    THEN ResolvePath(IF cur = <<>> THEN <<>>
                     ELSE SubSeq(cur, 1, Len(cur) - 1), Tail(rest), t, a)
    ELSE LET p == PathOf(Append(cur, seg)) IN
      IF IsLink(p, t)
      THEN ResolvePath(Tail(SplitPath(LinkTarget(p, t))), Tail(rest), t, a)
      ELSE IF p \in Dirs(t) \cup Files(t, a)
      THEN ResolvePath(Append(cur, seg), Tail(rest), t, a)
      ELSE NULL

realpath(path, t, a) == ResolvePath(<<>>, SplitPath(path), t, a)

(***************************************************************************)
(* is_subpath (util.c): whether path is root or lies below it, by whole    *)
(* path segments.                                                          *)
(***************************************************************************)
is_subpath(root, path) ==
  \/ path = root
  \/ /\ Len(path) > Len(root)
     /\ SubSeq(path, 1, Len(root)) = root
     /\ Ch(path, Len(root) + 1) = "/"

(***************************************************************************)
(* What string_create_from_utf8_file and XMLDoc_parse_buffer_DOM make of   *)
(* the file at a canonical path: the OPF document of the archive, its      *)
(* container.xml, a content document (XML that is no OPF), or nothing that *)
(* can be read (a directory).                                              *)
(***************************************************************************)
XhtmlDoc ==
  XmlDoc(<<Node("head", NULL, <<>>, <<>>), Node("body", NULL, <<>>, <<>>)>>)

ReadDoc(path, t, a) ==
  IF path = t \o "/OEBPS/content.opf" THEN a.opf
  ELSE IF path = t \o "/META-INF/container.xml" THEN a.container
  ELSE IF path \in Files(t, a) THEN XhtmlDoc
  ELSE Unreadable

(***************************************************************************)
(* The state a call of epub2txt_do_file leaves untouched when a function   *)
(* is applied on its own.                                                  *)
(***************************************************************************)
NoArchive == [kind |-> "none"]

\* List *spine_items = NULL
NoList == [ok |-> FALSE, ret |-> <<>>]

NoOptions == [meta |-> FALSE, notext |-> FALSE, calibre |-> FALSE,
              section_separator |-> NULL]

CallIdle ==
  /\ tempdir = NULL
  /\ live = {}
  /\ calls = 0
  /\ archive = NoArchive
  /\ options = NoOptions
  /\ error = NULL
  /\ created = NULL
  /\ rmrf = <<>>
  /\ out = <<>>
  /\ warnings = <<>>
  /\ reads = <<>>
  /\ opf_canonical = NULL
  /\ content_dir = NULL
  /\ spine_items = NoList
  /\ idx = 0

(***************************************************************************)
(* epub2txt_unescape_html applied to every text of a bounded length.       *)
(***************************************************************************)
EntityAlphabet == {"a", "m", "p", "&", ";"}

RECURSIVE StringsUpTo(_, _)
StringsUpTo(alphabet, n) ==
  IF n = 0 THEN {""}
  ELSE LET S == StringsUpTo(alphabet, n - 1) IN
         S \cup {s \o c : s \in S, c \in alphabet}

InitUnescape ==
  /\ pc = "call"
  /\ arg \in StringsUpTo(EntityAlphabet, MaxStrLen)
  /\ result = NULL
  /\ CallIdle

UnescapeHtml ==
  /\ pc = "call"
  /\ result' = epub2txt_unescape_html(arg)
  /\ pc' = "ret"
  /\ UNCHANGED <<arg, callvars>>

NextUnescape == UnescapeHtml

SpecUnescape == InitUnescape /\ [][NextUnescape]_vars

(***************************************************************************)
(* epub2txt_get_root_file applied to bounded container.xml documents.      *)
(***************************************************************************)
MaxRootfiles == 2

RootfileAttributes ==
  { <<>>,
    <<Attr("full-path", "OEBPS/content.opf")>>,
    <<Attr("media-type", "application/oebps-package+xml"),
      Attr("full-path", "alt.opf")>>,
    <<Attr("full-path", "")>> }

RootfileNodes ==
  {Node(t, NULL, a, <<>>) :
     t \in {"rootfile", "c:rootfile"}, a \in RootfileAttributes}

RootfilesNodes ==
  {Node(t, NULL, <<>>, c) :
     t \in {"rootfiles", "c:rootfiles", "other"},
     c \in SeqsUpTo(RootfileNodes, MaxRootfiles)}

ContainerDocs ==
  {Unreadable, BadXml, NoRoot, XmlDoc(<<>>)}
    \cup {XmlDoc(<<n>>) : n \in RootfilesNodes}
    \cup {XmlDoc(<<Node("other", NULL, <<>>, <<>>), n>>) : n \in RootfilesNodes}

InitRootFile ==
  /\ pc = "call"
  /\ arg \in ContainerDocs
  /\ result = NULL
  /\ CallIdle

GetRootFile ==
  /\ pc = "call"
  /\ result' = epub2txt_get_root_file(arg)
  /\ pc' = "ret"
  /\ UNCHANGED <<arg, callvars>>

NextRootFile == GetRootFile

SpecRootFile == InitRootFile /\ [][NextRootFile]_vars

(***************************************************************************)
(* epub2txt_get_items applied to bounded OPF documents.                    *)
(***************************************************************************)
MaxManifest == 2
MaxSpine == 3

ManifestItems ==
  {Node("item", NULL, a, <<>>) :
     a \in { <<Attr("id", "a"), Attr("href", "c1.xhtml")>>,
             <<Attr("href", "c%32.xhtml"), Attr("id", "b")>>,
             <<Attr("id", "a"), Attr("href", "c3.xhtml")>>,
             <<Attr("id", "b")>> }}

Itemrefs ==
  {Node("itemref", NULL, a, <<>>) :
     a \in { <<Attr("idref", "a")>>,
             <<Attr("linear", "yes"), Attr("idref", "b")>>,
             <<Attr("idref", "x")>>,
             <<>> }}

OpfDocs ==
  {Unreadable, BadXml, NoRoot, XmlDoc(<<>>)}
    \cup {XmlDoc(<<Node("spine", NULL, <<>>, sp)>>) :
            sp \in SeqsUpTo(Itemrefs, 1)}
    \cup {XmlDoc(<<Node("metadata", NULL, <<>>, <<>>),
                   Node(mt, NULL, <<>>, mf),
                   Node(st, NULL, <<>>, sp)>>) :
            mt \in {"manifest"}, st \in {"spine", "opf:spine"},
            mf \in SeqsUpTo(ManifestItems, MaxManifest),
            sp \in SeqsUpTo(Itemrefs, MaxSpine)}
    \cup {XmlDoc(<<Node("opf:spine", NULL, <<>>, sp),
                   Node("opf:manifest", NULL, <<>>, mf)>>) :
            mf \in SeqsUpTo(ManifestItems, 1),
            sp \in SeqsUpTo(Itemrefs, 1)}

InitGetItems ==
  /\ pc = "call"
  /\ arg \in OpfDocs
  /\ result = NULL
  /\ CallIdle

GetItems ==
  /\ pc = "call"
  /\ result' = epub2txt_get_items(arg)
  /\ pc' = "ret"
  /\ UNCHANGED <<arg, callvars>>

NextGetItems == GetItems

SpecGetItems == InitGetItems /\ [][NextGetItems]_vars

(***************************************************************************)
(* epub2txt_dump_metadata applied to bounded OPF metadata.                 *)
(***************************************************************************)
MaxMetadata == 2

MetadataNodes ==
  { Node("dc:title", "A &amp; B", <<>>, <<>>),
    Node("dc:date", "2019-05-01", <<>>, <<>>),
    Node("dc:creator", "Jane &amp; Doe", <<Attr("id", "cre")>>, <<>>),
    Node("meta", NULL,
         <<Attr("name", "calibre:series"), Attr("content", "Saga")>>, <<>>),
    Node("meta", NULL,
         <<Attr("content", "2.0"),
           Attr("property", "calibre:series_index")>>, <<>>),
    Node("meta", NULL,
         <<Attr("name", "calibre:title_sort"),
           Attr("content", "Saga, The")>>, <<>>),
    Node("meta", "text",
         <<Attr("name", "calibre:series"), Attr("content", "Epic")>>, <<>>),
    Node("meta", NULL,
         <<Attr("name", "cover"), Attr("content", "img1")>>, <<>>),
    Node("meta", NULL, <<Attr("content", "alone")>>, <<>>) }

MetadataDocs ==
  {Unreadable, BadXml, NoRoot, XmlDoc(<<>>),
   XmlDoc(<<Node("manifest", NULL, <<>>, <<>>)>>)}
    \cup {XmlDoc(<<Node(t, NULL, <<>>, c),
                   Node("manifest", NULL, <<>>, <<>>)>>) :
            t \in {"metadata", "opf:metadata"},
            c \in SeqsUpTo(MetadataNodes, MaxMetadata)}

InitMetadata ==
  /\ pc = "call"
  /\ arg \in [doc : MetadataDocs,
              options : [meta : {TRUE}, notext : {FALSE}, calibre : BOOLEAN,
                         section_separator : {NULL}]]
  /\ result = NULL
  /\ CallIdle

DumpMetadata ==
  /\ pc = "call"
  /\ result' = epub2txt_dump_metadata(arg.doc, arg.options)
  /\ pc' = "ret"
  /\ UNCHANGED <<arg, callvars>>

NextMetadata == DumpMetadata

SpecMetadata == InitMetadata /\ [][NextMetadata]_vars

\* The '&' that opens an entity no ';' closes: the first '&' after the last
\* ';' of s, 0 when there is none.
OpenAmp(s) ==
  LET last == Strrchr(s, ";")
      rest == SubSeq(s, last + 1, Len(s))
  IN IF Strchr(rest, "&") = 0 THEN 0 ELSE last + Strchr(rest, "&")

\* C5: the decoding of a text with an unterminated entity ends with the '&'
\* and the characters after it, so the text "&amp" decodes to "&amp".
C5_UnterminatedEntityLiteral ==
  (pc = "ret" /\ OpenAmp(arg) # 0) =>
     LET tail == SubSeq(arg, OpenAmp(arg), Len(arg)) IN
       /\ Len(result) >= Len(tail)
       /\ SubSeq(result, Len(result) - Len(tail) + 1, Len(result)) = tail
(***************************************************************************)
(* epub2txt_cleanup: the command "rm -rf tempdir" is run and the slot is   *)
(* cleared, when the slot holds a directory.                               *)
(***************************************************************************)
cleanup_keeps_slot(td, lv, rm) ==
  IF td # NULL
  THEN [tempdir |-> td, live |-> lv \ {td}, rmrf |-> Append(rm, td)]
  ELSE [tempdir |-> td, live |-> lv, rmrf |-> rm]

epub2txt_cleanup(td, lv, rm) ==
  IF td # NULL
  THEN [tempdir |-> NULL, live |-> lv \ {td}, rmrf |-> Append(rm, td)]
  ELSE [tempdir |-> td, live |-> lv, rmrf |-> rm]

(***************************************************************************)
(* The inputs of epub2txt_do_file: the EPUB files and the options.         *)
(***************************************************************************)
ContainerOf(full_path) ==
  XmlDoc(<<Node("rootfiles", NULL, <<>>,
                <<Node("rootfile", NULL,
                       <<Attr("full-path", full_path),
                         Attr("media-type", "application/oebps-package+xml")>>,
                       <<>>)>>)>>)

RootPaths ==
  {"OEBPS/content.opf", "OEBPS/./../OEBPS/content.opf", "../../etc/passwd",
   "missing.opf", "opf.lnk", "/etc/passwd", "", ".", "OEBPS", "OEBPS/c1.xhtml"}

Containers ==
  {Unreadable, BadXml, NoRoot,
   XmlDoc(<<Node("c:rootfiles", NULL, <<>>,
                 <<Node("c:rootfile", NULL,
                        <<Attr("full-path", "OEBPS/content.opf")>>,
                        <<>>)>>)>>)}
    \cup {ContainerOf(p) : p \in RootPaths}

BookMetadata ==
  Node("metadata", NULL, <<>>,
       <<Node("dc:title", "A &amp; B", <<>>, <<>>),
         Node("dc:date", "2019-05-01", <<>>, <<>>)>>)

BookManifest ==
  Node("manifest", NULL, <<>>,
       <<Node("item", NULL,
              <<Attr("id", "a"), Attr("href", "c1.xhtml")>>, <<>>),
         Node("item", NULL,
              <<Attr("id", "b"), Attr("href", "c%32.xhtml")>>, <<>>),
         Node("item", NULL,
              <<Attr("id", "l"), Attr("href", "passwd.xhtml")>>, <<>>),
         Node("item", NULL,
              <<Attr("id", "n"), Attr("href", "nofile.xhtml")>>, <<>>),
         Node("item", NULL,
              <<Attr("id", "r"), Attr("href", "../root.xhtml")>>, <<>>)>>)

SpineIdrefs == {"a", "b", "l", "n", "r", "x"}

SpineOf(idrefs) ==
  Node("spine", NULL, <<>>,
       [j \in 1..Len(idrefs) |->
          Node("itemref", NULL, <<Attr("idref", idrefs[j])>>, <<>>)])

Books ==
  {BadXml,
   XmlDoc(<<BookMetadata>>),
   XmlDoc(<<BookMetadata, Node("manifest", NULL, <<>>, <<>>),
            SpineOf(<<"a">>)>>)}
    \cup {XmlDoc(<<BookMetadata, BookManifest, SpineOf(sp)>>) :
            sp \in SeqsUpTo(SpineIdrefs, MaxItems)}

GoodBook == XmlDoc(<<BookMetadata, BookManifest, SpineOf(<<"a", "b">>)>>)

Archives ==
  {[readable |-> FALSE, unzip_status |-> 0,
    container |-> ContainerOf("OEBPS/content.opf"), opf |-> GoodBook],
   [readable |-> TRUE, unzip_status |-> 9,
    container |-> ContainerOf("OEBPS/content.opf"), opf |-> GoodBook]}
    \cup {[readable |-> TRUE, unzip_status |-> 0, container |-> c,
           opf |-> GoodBook] : c \in Containers}
    \cup {[readable |-> TRUE, unzip_status |-> 0,
           container |-> ContainerOf("OEBPS/content.opf"), opf |-> b] :
            b \in Books}

OptionSets ==
  [meta : BOOLEAN, notext : BOOLEAN, calibre : {FALSE},
   section_separator : {NULL, "***"}]

(***************************************************************************)
(* epub2txt_do_file, one action for each stretch of the function between   *)
(* two of its calls on the outside world.                                  *)
(***************************************************************************)
\* the template handed to mkdtemp, filled in: tempbase is "/tmp"
TempName(n) == "/tmp/epub2txt." \o Ch(Digits, n + 1)

\* epub2txt.c:527: opf_canonical == NULL || !is_subpath (tempdir_canonical, ...)
OpfPathNullOnly(tempdir_canonical, opf) == opf = NULL

OpfPathBad(tempdir_canonical, opf) ==
  opf = NULL \/ ~is_subpath(tempdir_canonical, opf)

\* epub2txt.c:592: item_canon_path == NULL || !is_subpath (content_dir, ...)
ItemPathNullOnly(dir, item_canon_path) == item_canon_path = NULL

ItemPathBad(dir, item_canon_path) ==
  item_canon_path = NULL \/ ~is_subpath(dir, item_canon_path)

\* epub2txt.c:544-561: content_dir is opf_canonical cut at its last '/'
ContentDir(opf, td) ==
  IF Strrchr(opf, "/") # 0 THEN SubSeq(opf, 1, Strrchr(opf, "/") - 1)
  ELSE td

\* epub2txt.c:617-620: the error of epub2txt_get_items is logged and kept for
\* the caller to report
SpineErrorCleared(e) == NULL

SpineError(e) == e

\* epub2txt.c:609-613: the error of the renderer is logged and cleared
ErrorKept(e) == e

ErrorAfterItem(e) == NULL

\* epub2txt.c:446-484: access, the temporary directory
DoFileEnter ==
  /\ pc = "idle"
  /\ calls < MaxCalls
  /\ calls' = calls + 1
  /\ \E a \in Archives, o \in OptionSets, made \in BOOLEAN :
       /\ archive' = a
       /\ options' = o
       /\ IF ~a.readable
          THEN /\ error' = "File not found or not readable"
               /\ warnings' = <<>>
               /\ created' = NULL
               /\ pc' = "return"
               /\ UNCHANGED <<tempdir, live>>
          ELSE /\ warnings' = IF tempdir # NULL
                              THEN <<"tempdir was not NULL">> ELSE <<>>
               /\ IF made
                  THEN /\ tempdir' = TempName(calls + 1)
                       /\ live' = live \cup {TempName(calls + 1)}
                       /\ created' = TempName(calls + 1)
                       /\ error' = NULL
                       /\ pc' = "unzip"
                  ELSE /\ error' = "Can't create temporary directory"
                       /\ created' = NULL
                       /\ pc' = "return"
                       /\ UNCHANGED <<tempdir, live>>
  /\ rmrf' = <<>>
  /\ out' = <<>>
  /\ reads' = <<>>
  /\ opf_canonical' = NULL
  /\ content_dir' = NULL
  /\ spine_items' = NoList
  /\ idx' = 0
  /\ UNCHANGED <<arg, result>>

\* epub2txt.c:486-497: unzip into the directory, chmod
Unzip ==
  /\ pc = "unzip"
  /\ IF archive.unzip_status # 0
     THEN LET c == epub2txt_cleanup(tempdir, live, rmrf) IN
            /\ error' = "Unzip command failed"
            /\ tempdir' = c.tempdir
            /\ live' = c.live
            /\ rmrf' = c.rmrf
            /\ pc' = "return"
     ELSE /\ pc' = "container"
          /\ UNCHANGED <<error, tempdir, live, rmrf>>
  /\ UNCHANGED <<arg, result, calls, archive, options, created, out,
                 warnings, reads, opf_canonical, content_dir, spine_items,
                 idx>>

\* epub2txt.c:499-562 and 627-632: the root file of container.xml, the check
\* of its path against the temporary directory, the content directory
ResolveOpf ==
  /\ pc = "container"
  /\ LET rf == epub2txt_get_root_file(
                 ReadDoc(tempdir \o "/META-INF/container.xml", tempdir,
                         archive))
         opf == realpath(tempdir \o "/" \o rf.ret, tempdir, archive)
         tempdir_canonical == realpath(tempdir, tempdir, archive)
         c == epub2txt_cleanup(tempdir, live, rmrf)
     IN /\ warnings' = warnings \o rf.warnings
        /\ IF rf.error = NULL /\ rf.ret # NULL
           THEN IF tempdir_canonical = NULL
                     \/ OpfPathBad(tempdir_canonical, opf)
                THEN /\ error' =
                          IF tempdir_canonical = NULL
                          THEN "Failed to resolve temporary directory path"
                          ELSE IF opf = NULL
                          THEN "Bad OPF rootfile: realpath failed"
                          ELSE "Bad OPF rootfile path: outside EPUB container"
                     /\ tempdir' = c.tempdir
                     /\ live' = c.live
                     /\ rmrf' = c.rmrf
                     /\ pc' = "return"
                     /\ UNCHANGED <<opf_canonical, content_dir>>
                ELSE /\ opf_canonical' = opf
                     /\ content_dir' = ContentDir(opf, tempdir)
                     /\ pc' = "metadata"
                     /\ UNCHANGED <<error, tempdir, live, rmrf>>
           ELSE /\ error' = IF rf.error # NULL THEN rf.error
                            ELSE "Failed to get OPF root file path"
                /\ pc' = "finish"
                /\ UNCHANGED <<tempdir, live, rmrf, opf_canonical,
                               content_dir>>
  /\ UNCHANGED <<arg, result, calls, archive, options, created, out, reads,
                 spine_items, idx>>

\* epub2txt.c:564-573: the metadata, when the meta option is set
Metadata ==
  /\ pc = "metadata"
  /\ IF options.meta
     THEN LET md == epub2txt_dump_metadata(
                      ReadDoc(opf_canonical, tempdir, archive), options)
          IN /\ reads' = Append(reads, [by |-> "epub2txt_dump_metadata",
                                        path |-> opf_canonical])
             /\ out' = out \o md.out
             /\ warnings' = warnings \o md.warnings
                  \o (IF md.error # NULL
                      THEN <<"Error during metadata dump">> ELSE <<>>)
             /\ error' = NULL
     ELSE UNCHANGED <<reads, out, warnings, error>>
  /\ pc' = "items"
  /\ UNCHANGED <<arg, result, tempdir, live, calls, archive, options,
                 created, rmrf, opf_canonical, content_dir, spine_items, idx>>

\* epub2txt.c:575-581 and 617-623: the spine items, unless notext is set
Items ==
  /\ pc = "items"
  /\ IF ~options.notext /\ error = NULL
     THEN LET gi == epub2txt_get_items(
                      ReadDoc(opf_canonical, tempdir, archive))
          IN /\ reads' = Append(reads, [by |-> "epub2txt_get_items",
                                        path |-> opf_canonical])
             /\ error' = IF gi.error = NULL THEN NULL
                          ELSE SpineError(gi.error)
             /\ IF gi.error = NULL /\ gi.ok
                THEN /\ spine_items' = [ok |-> TRUE, ret |-> gi.ret]
                     /\ warnings' = warnings \o gi.warnings
                     /\ pc' = "loop"
                ELSE /\ spine_items' = NoList
                     /\ warnings' = warnings \o gi.warnings
                          \o (IF gi.error # NULL
                              THEN <<"Could not get spine items">>
                              ELSE <<"Spine items list is NULL">>)
                     /\ pc' = "finish"
     ELSE /\ pc' = "finish"
          /\ UNCHANGED <<reads, error, spine_items, warnings>>
  /\ idx' = 0
  /\ UNCHANGED <<arg, result, tempdir, live, calls, archive, options,
                 created, rmrf, out, opf_canonical, content_dir>>

\* epub2txt.c:582-614: one pass of the loop over the spine items
SpineItem ==
  /\ pc = "loop"
  /\ idx < Len(spine_items.ret)
  /\ LET item_rel_path == spine_items.ret[idx + 1]
         item_canon_path == realpath(content_dir \o "/" \o item_rel_path,
                                     tempdir, archive)
     IN IF ItemPathBad(content_dir, item_canon_path)
        THEN /\ warnings' = Append(warnings,
                              IF item_canon_path = NULL
                              THEN "Skipping EPUB spine item: invalid path"
                              ELSE "Skipping EPUB spine item: outside content directory")
             /\ UNCHANGED <<out, error>>
        ELSE \E failed \in BOOLEAN :
               /\ out' = out
                    \o (IF options.section_separator # NULL
                        THEN <<[kind |-> "separator",
                                text |-> options.section_separator]>>
                        ELSE <<>>)
                    \o <<[kind |-> "text", item |-> item_rel_path,
                          path |-> item_canon_path, failed |-> failed]>>
               /\ warnings' = IF failed
                              THEN Append(warnings,
                                          "Error processing spine item")
                              ELSE warnings
               /\ error' = ErrorAfterItem(IF failed
                                          THEN "xhtml_file_to_stdout failed"
                                          ELSE NULL)
  /\ idx' = idx + 1
  /\ UNCHANGED <<pc, arg, result, tempdir, live, calls, archive, options,
                 created, rmrf, reads, opf_canonical, content_dir,
                 spine_items>>

\* epub2txt.c:614-615: the loop ends
SpineDone ==
  /\ pc = "loop"
  /\ idx >= Len(spine_items.ret)
  /\ pc' = "finish"
  /\ UNCHANGED <<arg, result, callvars>>

\* epub2txt.c:624-635: the last lines, with the call of epub2txt_cleanup
Finish ==
  /\ pc = "finish"
  /\ LET c == epub2txt_cleanup(tempdir, live, rmrf) IN
       /\ tempdir' = c.tempdir
       /\ live' = c.live
       /\ rmrf' = c.rmrf
  /\ pc' = "return"
  /\ UNCHANGED <<arg, result, calls, archive, options, error, created, out,
                 warnings, reads, opf_canonical, content_dir, spine_items,
                 idx>>

\* epub2txt.c:642-643: back in the caller, the locals of the call are gone
DoFileReturn ==
  /\ pc = "return"
  /\ pc' = "idle"
  /\ archive' = NoArchive
  /\ options' = NoOptions
  /\ error' = NULL
  /\ created' = NULL
  /\ rmrf' = <<>>
  /\ out' = <<>>
  /\ warnings' = <<>>
  /\ reads' = <<>>
  /\ opf_canonical' = NULL
  /\ content_dir' = NULL
  /\ spine_items' = NoList
  /\ idx' = 0
  /\ UNCHANGED <<arg, result, tempdir, live, calls>>

Init ==
  /\ pc = "idle"
  /\ arg = NULL
  /\ result = NULL
  /\ CallIdle

Next ==
  \/ DoFileEnter
  \/ Unzip
  \/ ResolveOpf
  \/ Metadata
  \/ Items
  \/ SpineItem
  \/ SpineDone
  \/ Finish
  \/ DoFileReturn

Spec == Init /\ [][Next]_vars

(***************************************************************************)
(* What the claims speak of.                                               *)
(***************************************************************************)
\* the value of the first attribute called name, NULL when there is none
AttrValue(attributes, name) ==
  IF \E k \in 1..Len(attributes) : attributes[k].name = name
  THEN attributes[CHOOSE k \in 1..Len(attributes) :
                    /\ attributes[k].name = name
                    /\ \A h \in 1..(k - 1) : attributes[h].name # name].value
  ELSE NULL

\* a tag without its namespace prefix
LocalName(tag) ==
  IF Strrchr(tag, ":") = 0 THEN tag
  ELSE SubSeq(tag, Strrchr(tag, ":") + 1, Len(tag))

ChildrenOf(doc, name) ==
  IF FirstChild(doc.children, name) = 0 THEN <<>>
  ELSE doc.children[FirstChild(doc.children, name)].children

UniqueIds(items) ==
  \A m, n \in 1..Len(items) :
    (m # n /\ AttrValue(items[m].attributes, "id") # NULL)
      => AttrValue(items[m].attributes, "id")
           # AttrValue(items[n].attributes, "id")

\* the manifest items an itemref names
Named(items, itemref) ==
  {m \in 1..Len(items) :
     /\ AttrValue(itemref.attributes, "idref") # NULL
     /\ AttrValue(items[m].attributes, "id")
          = AttrValue(itemref.attributes, "idref")}

\* the decoded hrefs of the itemrefs that name a manifest item, in spine order
RECURSIVE SpineOrderHrefs(_, _)
SpineOrderHrefs(items, itemrefs) ==
  IF itemrefs = <<>> THEN <<>>
  ELSE LET hit == Named(items, Head(itemrefs))
           href == IF hit = {} THEN NULL
                   ELSE AttrValue(items[CHOOSE m \in hit : TRUE].attributes,
                                  "href")
       IN (IF href = NULL THEN <<>> ELSE <<decode_url(href)>>)
            \o SpineOrderHrefs(items, Tail(itemrefs))

\* C4: for a manifest with unique ids, epub2txt_get_items returns the decoded
\* hrefs of the itemrefs whose idref is in the manifest, in spine order, and
\* leaves out the itemrefs whose idref is not.
C4_SpineOrder ==
  (pc = "ret" /\ result.ok /\ UniqueIds(ChildrenOf(arg, "manifest"))) =>
     result.ret = SpineOrderHrefs(ChildrenOf(arg, "manifest"),
                                  ChildrenOf(arg, "spine"))

\* a manifest declared a, b read through the spine b, x, a
C4_Witness ==
  /\ pc = "ret"
  /\ result.ok
  /\ UniqueIds(ChildrenOf(arg, "manifest"))
  /\ Len(ChildrenOf(arg, "manifest")) = 2
  /\ AttrValue(ChildrenOf(arg, "manifest")[1].attributes, "id") = "a"
  /\ AttrValue(ChildrenOf(arg, "manifest")[2].attributes, "id") = "b"
  /\ Len(ChildrenOf(arg, "spine")) = 3
  /\ AttrValue(ChildrenOf(arg, "spine")[2].attributes, "idref") = "x"
  /\ result.ret = <<"c2.xhtml", "c1.xhtml">>

\* a container.xml with every tag replaced by its local name
StripPrefixes(doc) ==
  [doc EXCEPT !.children =
     [i \in 1..Len(doc.children) |->
        [doc.children[i] EXCEPT
           !.tag = LocalName(@),
           !.children = [j \in 1..Len(@) |->
                           [@[j] EXCEPT !.tag = LocalName(@)]]]]]

\* C7: epub2txt_get_root_file returns for a container.xml written with
\* namespace prefixes the full-path it returns for the unprefixed form.
C7_NamespaceTolerant ==
  pc = "ret" => result.ret = epub2txt_get_root_file(StripPrefixes(arg)).ret

CalibreNames ==
  {"calibre:series", "calibre:series_index", "calibre:title_sort"}

CalibreLabels ==
  {"Calibre series", "Calibre series index", "Calibre title sort"}

\* the name of a meta element: its name attribute, else its property attribute
MetaName(n) ==
  IF AttrValue(n.attributes, "name") # NULL
  THEN AttrValue(n.attributes, "name")
  ELSE AttrValue(n.attributes, "property")

IsCalibreMeta(n) ==
  /\ LocalName(n.tag) = "meta"
  /\ AttrValue(n.attributes, "content") # NULL
  /\ MetaName(n) \in CalibreNames

CalibreRecord(n) ==
  LET content == AttrValue(n.attributes, "content") IN
    CASE MetaName(n) = "calibre:series" ->
           [kind |-> "meta", key |-> "Calibre series", text |-> content]
      [] MetaName(n) = "calibre:series_index" ->
           [kind |-> "meta", key |-> "Calibre series index",
            text |-> TruncateAt(content, ".")]
      [] MetaName(n) = "calibre:title_sort" ->
           [kind |-> "meta", key |-> "Calibre title sort", text |-> content]

RECURSIVE CalibreRecords(_)
CalibreRecords(children) ==
  IF children = <<>> THEN <<>>
  ELSE (IF IsCalibreMeta(Head(children))
        THEN <<CalibreRecord(Head(children))>> ELSE <<>>)
         \o CalibreRecords(Tail(children))

IsCalibreLine(r) == r.key \in CalibreLabels

\* C8: with the calibre option, epub2txt_dump_metadata writes one record for
\* every meta child that has a content attribute and a Calibre name, also
\* when the element has no text of its own.
C8_CalibreRecords ==
  (pc = "ret" /\ arg.options.calibre) =>
     SelectSeq(result.out, IsCalibreLine)
       = CalibreRecords(ChildrenOf(arg.doc, "metadata"))

(***************************************************************************)
(* What the claims about epub2txt_do_file speak of.                        *)
(***************************************************************************)
StartsWith(s, prefix) ==
  Len(s) >= Len(prefix) /\ SubSeq(s, 1, Len(prefix)) = prefix

IsText(e) == e.kind = "text"

IsSeparator(e) == e.kind = "separator"

IsSkipWarning(w) == StartsWith(w, "Skipping EPUB spine item")

\* the directory that holds the file at a canonical path
DirOf(path) ==
  LET segs == Tail(SplitPath(path)) IN
    IF Len(segs) <= 1 THEN "/" ELSE JoinPath(SubSeq(segs, 1, Len(segs) - 1))

\* the canonical path of a spine item below the content root, NULL when the
\* item has none or it lies outside the root
CheckedPath(root, item) ==
  LET canon == realpath(root \o "/" \o item, created, archive) IN
    IF canon # NULL /\ is_subpath(root, canon) THEN canon ELSE NULL

RECURSIVE CheckedPaths(_, _)
CheckedPaths(root, items) ==
  IF items = <<>> THEN <<>>
  ELSE (IF CheckedPath(root, Head(items)) = NULL THEN <<>>
        ELSE <<CheckedPath(root, Head(items))>>)
         \o CheckedPaths(root, Tail(items))

RenderedPaths ==
  LET texts == SelectSeq(out, IsText) IN
    [k \in 1..Len(texts) |-> texts[k].path]

C2_RenderOnlyChecked ==
  \A k \in 1..Len(out) :
    /\ IsText(out[k]) =>
         /\ out[k].path # NULL
         /\ out[k].path = CheckedPath(DirOf(opf_canonical), out[k].item)
    /\ IsSeparator(out[k]) => (k < Len(out) /\ IsText(out[k + 1]))

\* a spine of a link that leaves the content root and of a chapter, with a
\* separator configured: the chapter alone is rendered, after one separator
C2_Witness ==
  /\ pc = "return"
  /\ spine_items = [ok |-> TRUE, ret |-> <<"passwd.xhtml", "c1.xhtml">>]
  /\ options.section_separator # NULL
  /\ ~options.meta
  /\ Len(out) = 2
  /\ IsSeparator(out[1])
  /\ IsText(out[2])
  /\ out[2].path = created \o "/OEBPS/c1.xhtml"

\* the OPF path of container.xml has no canonical form or one outside the
\* temporary directory
OpfRejected ==
  /\ created # NULL
  /\ archive.unzip_status = 0
  /\ epub2txt_get_root_file(archive.container).ret # NULL
  /\ LET opf == realpath(created \o "/"
                           \o epub2txt_get_root_file(archive.container).ret,
                         created, archive)
     IN opf = NULL \/ ~is_subpath(realpath(created, created, archive), opf)

\* C3: when the OPF path is rejected the OPF file is never read, nothing is
\* written, and the call returns with *error set and the directory released.
C3_OpfRejectedAborts ==
  OpfRejected =>
    /\ reads = <<>>
    /\ out = <<>>
    /\ pc \in {"unzip", "container", "return"}
    /\ pc = "return" =>
         (error # NULL /\ rmrf = <<created>> /\ tempdir = NULL /\ live = {})

\* the call on an archive whose container.xml names ../../etc/passwd, with
\* the metadata asked for
C3_Witness ==
  /\ pc = "return"
  /\ OpfRejected
  /\ options.meta
  /\ epub2txt_get_root_file(archive.container).ret = "../../etc/passwd"
  /\ error = "Bad OPF rootfile path: outside EPUB container"

\* the OPF document of the running call has no manifest element, or one
\* without children
MalformedManifest ==
  /\ opf_canonical # NULL
  /\ LET doc == ReadDoc(opf_canonical, created, archive) IN
       /\ doc.kind = "xml"
       /\ ChildrenOf(doc, "manifest") = <<>>

\* C6 as stated: with a malformed manifest epub2txt_do_file returns with
\* *error == NULL.
C6_MalformedManifestRecoverable ==
  (pc = "return" /\ MalformedManifest) => error = NULL

\* C6 as amended: with a malformed manifest and text asked for,
\* epub2txt_do_file logs a warning, renders nothing, releases the directory
\* and returns with *error set; with notext the manifest is never examined
\* and *error is NULL.
C6_MalformedManifestReported ==
  (pc = "return" /\ MalformedManifest) =>
    IF options.notext
    THEN error = NULL
    ELSE /\ error = "no valid manifest or manifest children"
         /\ \E k \in 1..Len(warnings) :
              warnings[k] = "Could not get spine items"
         /\ SelectSeq(out, IsText) = <<>>
         /\ rmrf = <<created>>
         /\ tempdir = NULL

C6_Witness ==
  /\ pc = "return"
  /\ MalformedManifest
  /\ ~options.notext
  /\ options.meta
  /\ error = "no valid manifest or manifest children"

\* C9: the warnings about skipped spine items are as many as the itemrefs of
\* the spine that were not rendered.
C9_SkippedWithWarning ==
  (pc = "return" /\ spine_items.ok) =>
     Len(SelectSeq(warnings, IsSkipWarning))
       = Len(ChildrenOf(ReadDoc(opf_canonical, created, archive), "spine"))
           - Len(SelectSeq(out, IsText))

\* C10: the renderings made so far are those of the items that pass the path
\* check among the items gone through, in spine order, whichever of them the
\* renderer failed on; at the return every item is gone through and *error
\* is NULL.
C10_RenderFailureContinues ==
  spine_items.ok =>
    /\ RenderedPaths
         = CheckedPaths(content_dir, SubSeq(spine_items.ret, 1, idx))
    /\ pc = "return" => (idx = Len(spine_items.ret) /\ error = NULL)

\* two chapters, the renderer failing on the first
C10_Witness ==
  /\ pc = "return"
  /\ spine_items.ok
  /\ LET texts == SelectSeq(out, IsText) IN
       /\ Len(texts) = 2
       /\ texts[1].failed
       /\ ~texts[2].failed
       /\ texts[1].path = created \o "/OEBPS/c2.xhtml"
       /\ texts[2].path = created \o "/OEBPS/c1.xhtml"
  /\ error = NULL

(***************************************************************************)
(* What the claims about the value of full-path, the content root and      *)
(* the length of the list of spine items speak of.                         *)
(***************************************************************************)
\* the values of the full-path attributes of the rootfile elements in the
\* rootfiles elements of a container.xml
FullPaths(doc) ==
  IF doc.kind # "xml" THEN {}
  ELSE {AttrValue(doc.children[i].children[j].attributes, "full-path") :
          <<i, j>> \in {<<i, j>> \in (1..Len(doc.children)) \X (1..MaxRootfiles) :
                          /\ j <= Len(doc.children[i].children)
                          /\ doc.children[i].tag = "rootfiles"
                          /\ doc.children[i].children[j].tag = "rootfile"}}
         \ {NULL}

\* C11: for a container.xml whose rootfile elements carry no full-path other
\* than the empty one, epub2txt_get_root_file returns no path and sets the
\* error, as it does when no rootfile has the attribute.
C11_EmptyFullPathFails ==
  (pc = "ret" /\ FullPaths(arg) = {""}) =>
     (result.ret = NULL /\ result.error # NULL)

\* C12: the content root of a call that passed the check of the OPF path is
\* the canonical temporary directory or lies below it.
C12_ContentRootInSandbox ==
  (created # NULL /\ content_dir # NULL) =>
     is_subpath(realpath(created, created, archive), content_dir)

\* C13: the list of epub2txt_get_items is never longer than the spine has
\* children.
C13_OneEntryPerItemref ==
  (pc = "ret" /\ result.ok) =>
     Len(result.ret) <= Len(ChildrenOf(arg, "spine"))
====
